---- MODULE Spec2Model ----
(***************************************************************************)
(* Model of src/app/app.config.ts: the module-level constant appConfig,    *)
(* an ApplicationConfig whose providers array literal is evaluated element *)
(* by element, in source order, when the module is loaded.  The only       *)
(* runtime input is isDevMode(), read by the devtools element.             *)
(***************************************************************************)
EXTENDS Naturals, Sequences, FiniteSets

VARIABLES
  ngDevMode,   \* what isDevMode() returns if called now
  pc,          \* module evaluation: "unloaded", "evaluating", "loaded"
  elems,       \* the providers array literal, as far as it is evaluated
  modules,     \* the appConfig exported by each evaluation of the module
  devSeen,     \* history: what isDevMode() returned in each evaluation
  registered,  \* provider kinds the bootstrap entrypoint has registered
  handled      \* application events handled after bootstrap

vars == <<ngDevMode, pc, elems, modules, devSeen, registered, handled>>

\* Bounds of the model.
MaxEvents == 3
MaxLoads == 3

\* maxAge: 25 (line 28)
DevtoolsMaxAge == 25

NoOptions == [none |-> TRUE]

\* isDevMode(), imported from @angular/core
isDevMode == ngDevMode

\* routes, imported from ./app.routes: an externally owned route table
routes == "routes"

Provider(kind, features, options) ==
  [kind |-> kind, features |-> features, options |-> options]

provideBrowserGlobalErrorListeners ==
  Provider("BrowserGlobalErrorListeners", {}, NoOptions)

\* Variant: the zone-based strategy is selected.
provideZoneChangeDetection ==
  Provider("ZoneChangeDetection", {}, NoOptions)

provideZonelessChangeDetection ==
  Provider("ZonelessChangeDetection", {}, NoOptions)

provideRouter ==
  Provider("Router", {routes}, NoOptions)

withEventReplay == "EventReplay"

provideClientHydration ==
  Provider("ClientHydration", {withEventReplay}, NoOptions)

providePrimeNG ==
  Provider("PrimeNG", {}, NoOptions)

provideStore ==
  Provider("Store", {}, NoOptions)

provideEffects ==
  Provider("Effects", {}, NoOptions)

\* Variants of the devtools options with a slip in them.
DevtoolsOptionsLogOnlyInDev ==
  [maxAge |-> DevtoolsMaxAge, logOnly |-> isDevMode]

DevtoolsOptionsMaxAgeByMode ==
  [maxAge |-> IF isDevMode THEN DevtoolsMaxAge ELSE 0, logOnly |-> ~isDevMode]

DevtoolsOptionsUnboundedInDev ==
  [maxAge |-> IF isDevMode THEN DevtoolsMaxAge + DevtoolsMaxAge ELSE DevtoolsMaxAge,
   logOnly |-> ~isDevMode]

\* { maxAge: 25, logOnly: !isDevMode() }
DevtoolsOptions ==
  [maxAge |-> DevtoolsMaxAge, logOnly |-> ~isDevMode]

provideStoreDevtools ==
  Provider("StoreDevtools", {}, DevtoolsOptions)

withFetch == "Fetch"

\* Variant: no transport feature, the client's default transport.
provideHttpClientDefault ==
  Provider("HttpClient", {}, NoOptions)

\* Variant: the fetch transport only outside development builds.
provideHttpClientFetchInProd ==
  Provider("HttpClient", IF isDevMode THEN {} ELSE {withFetch}, NoOptions)

provideHttpClient ==
  Provider("HttpClient", {withFetch}, NoOptions)

\* Variant: provideStore() written twice, provideEffects() forgotten.
ProvidersLiteralStoreTwice ==
  << provideBrowserGlobalErrorListeners,
     provideZonelessChangeDetection,
     provideRouter,
     provideClientHydration,
     providePrimeNG,
     provideStore,
     provideStore,
     provideStoreDevtools,
     provideHttpClient >>

\* Variant: provideEffects() listed before provideStore().
ProvidersLiteralEffectsFirst ==
  << provideBrowserGlobalErrorListeners,
     provideZonelessChangeDetection,
     provideRouter,
     provideClientHydration,
     providePrimeNG,
     provideEffects,
     provideStore,
     provideStoreDevtools,
     provideHttpClient >>

\* The providers array literal, lines 20-30, in source order.
ProvidersLiteral ==
  << provideBrowserGlobalErrorListeners,
     provideZonelessChangeDetection,
     provideRouter,
     provideClientHydration,
     providePrimeNG,
     provideStore,
     provideEffects,
     provideStoreDevtools,
     provideHttpClient >>

NumProviders == Len(ProvidersLiteral)

Init ==
  /\ ngDevMode \in BOOLEAN
  /\ pc = "unloaded"
  /\ elems = <<>>
  /\ modules = <<>>
  /\ devSeen = <<>>
  /\ registered = <<>>
  /\ handled = <<>>

\* Variant: every import evaluates the file again (no module cache).
ModuleEvalStartUncached ==
  /\ pc \in {"unloaded", "loaded"}
  /\ Len(modules) < MaxLoads
  /\ pc' = "evaluating"
  /\ elems' = <<>>
  /\ UNCHANGED <<ngDevMode, modules, devSeen, registered, handled>>

\* Variant: a later import evaluates the file again and the binding is
\* uninitialised while it does.
ModuleEvalStartRebinding ==
  /\ pc \in {"unloaded", "loaded"}
  /\ Len(devSeen) < MaxLoads
  /\ pc' = "evaluating"
  /\ elems' = <<>>
  /\ modules' = <<>>
  /\ UNCHANGED <<ngDevMode, devSeen, registered, handled>>

\* The module is imported: evaluation of `export const appConfig = ...` begins.
ModuleEvalStart ==
  /\ pc = "unloaded"
  /\ pc' = "evaluating"
  /\ elems' = <<>>
  /\ UNCHANGED <<ngDevMode, modules, devSeen, registered, handled>>

\* The next element of the array literal is evaluated and appended.
EvalElement ==
  /\ pc = "evaluating"
  /\ Len(elems) < NumProviders
  /\ LET e == ProvidersLiteral[Len(elems) + 1]
     IN /\ elems' = Append(elems, e)
        /\ devSeen' = IF e.kind = "StoreDevtools"
                        THEN Append(devSeen, isDevMode)
                        ELSE devSeen
  /\ UNCHANGED <<ngDevMode, pc, modules, registered, handled>>

\* The object literal is complete: the const binding appConfig is initialised.
Export ==
  /\ pc = "evaluating"
  /\ Len(elems) = NumProviders
  /\ modules' = Append(modules, [providers |-> elems])
  /\ pc' = "loaded"
  /\ UNCHANGED <<ngDevMode, elems, devSeen, registered, handled>>

\* enableProdMode(): the development-build predicate turns false.  Module
\* evaluation is synchronous, so this never happens inside it.
EnableProdMode ==
  /\ pc # "evaluating"
  /\ ngDevMode = TRUE
  /\ ngDevMode' = FALSE
  /\ UNCHANGED <<pc, elems, modules, devSeen, registered, handled>>

Configured == modules # <<>>

appConfig == modules[1]

\* The bootstrap entrypoint reads appConfig and registers its providers in
\* list order.
Register ==
  /\ pc = "loaded"
  /\ Configured
  /\ Len(registered) < Len(appConfig.providers)
  /\ registered' = Append(registered, appConfig.providers[Len(registered) + 1].kind)
  /\ UNCHANGED <<ngDevMode, pc, elems, modules, devSeen, handled>>

AppEvents == {"request", "uiEvent", "dispatch"}

\* Application logic runs once the application is bootstrapped.
HandleEvent ==
  /\ pc = "loaded"
  /\ Configured
  /\ Len(registered) = Len(appConfig.providers)
  /\ Len(handled) < MaxEvents
  /\ \E ev \in AppEvents : handled' = Append(handled, ev)
  /\ UNCHANGED <<ngDevMode, pc, elems, modules, devSeen, registered>>

\* A harness drops the module from the module cache, so that the next import
\* evaluates the file again in the same process.
ResetModules ==
  /\ pc = "loaded"
  /\ Len(modules) < MaxLoads
  /\ registered = <<>>
  /\ pc' = "unloaded"
  /\ elems' = <<>>
  /\ UNCHANGED <<ngDevMode, modules, devSeen, registered, handled>>

Next ==
  \/ ModuleEvalStart
  \/ EvalElement
  \/ Export
  \/ EnableProdMode
  \/ Register
  \/ HandleEvent

Spec == Init /\ [][Next]_vars

NextReload ==
  \/ ModuleEvalStart
  \/ EvalElement
  \/ Export
  \/ EnableProdMode
  \/ ResetModules

SpecReload == Init /\ [][NextReload]_vars

\* Under the synchronous, run-to-completion evaluation of a module, an
\* evaluation that can take its next step does take it.
FairSpec ==
  /\ Spec
  /\ WF_vars(ModuleEvalStart)
  /\ WF_vars(EvalElement)
  /\ WF_vars(Export)

-----------------------------------------------------------------------------
(* Reading a configuration record. *)

EntriesOf(cfg, kind) ==
  {i \in DOMAIN cfg.providers : cfg.providers[i].kind = kind}

KindsOf(cfg) == [i \in DOMAIN cfg.providers |-> cfg.providers[i].kind]

Has(cfg, kind) == EntriesOf(cfg, kind) # {}

Entry(cfg, kind) == cfg.providers[CHOOSE i \in EntriesOf(cfg, kind) : TRUE]

LogOnlyOf(cfg) == Entry(cfg, "StoreDevtools").options.logOnly

MaxAgeOf(cfg) == Entry(cfg, "StoreDevtools").options.maxAge

TransportOf(cfg) == Entry(cfg, "HttpClient").features

Precedes(cfg, a, b) ==
  \A i \in EntriesOf(cfg, a), j \in EntriesOf(cfg, b) : i < j

\* The record with its logOnly field blanked.
WithoutLogOnly(cfg) ==
  [providers |->
    [i \in DOMAIN cfg.providers |->
      IF cfg.providers[i].kind = "StoreDevtools"
        THEN [cfg.providers[i] EXCEPT !.options.logOnly = FALSE]
        ELSE cfg.providers[i]]]

\* The options table: the recognized options, and the option each kind of
\* providers entry belongs to.
RecognizedOptions ==
  {"globalErrorListeners", "changeDetectionMode", "router",
   "hydrationEventReplay", "uiLibraryDefaults", "stateContainerEffects",
   "devtools", "httpTransport"}

OptionOf(kind) ==
  CASE kind = "BrowserGlobalErrorListeners" -> "globalErrorListeners"
    [] kind \in {"ZonelessChangeDetection", "ZoneChangeDetection"} -> "changeDetectionMode"
    [] kind = "Router" -> "router"
    [] kind = "ClientHydration" -> "hydrationEventReplay"
    [] kind = "PrimeNG" -> "uiLibraryDefaults"
    [] kind \in {"Store", "Effects"} -> "stateContainerEffects"
    [] kind = "StoreDevtools" -> "devtools"
    [] kind = "HttpClient" -> "httpTransport"
    [] OTHER -> "unrecognized"

EntriesForOption(cfg, o) ==
  {i \in DOMAIN cfg.providers : OptionOf(cfg.providers[i].kind) = o}

Lifecycle == IF Configured THEN "configured" ELSE "unconfigured"

-----------------------------------------------------------------------------
(* The claims. *)

\* C1: the devtools logOnly field of the constructed appConfig is the negation
\* of what isDevMode() returned when the record was constructed: true gives
\* logOnly = FALSE, false gives logOnly = TRUE.
C1_LogOnlyNegatesDevMode ==
  Configured =>
    /\ Len(devSeen) >= 1
    /\ (devSeen[1] = TRUE => LogOnlyOf(appConfig) = FALSE)
    /\ (devSeen[1] = FALSE => LogOnlyOf(appConfig) = TRUE)

C1_Witness ==
  /\ Configured
  /\ devSeen[1] = FALSE
  /\ LogOnlyOf(appConfig) = TRUE

\* C2 as stated: every recognized option of the options table has exactly one
\* entry in the providers list.
C2_OneEntryPerOption ==
  Configured =>
    \A o \in RecognizedOptions : Cardinality(EntriesForOption(appConfig, o)) = 1

\* C2 as amended: every entry belongs to a recognized option, no option is
\* missing, and every option has exactly one entry except the state container /
\* effects option, which has two: one store entry and one effects entry.
C2_OneEntryPerCapability ==
  Configured =>
    /\ \A i \in DOMAIN appConfig.providers :
         OptionOf(appConfig.providers[i].kind) \in RecognizedOptions
    /\ \A o \in RecognizedOptions \ {"stateContainerEffects"} :
         Cardinality(EntriesForOption(appConfig, o)) = 1
    /\ Cardinality(EntriesForOption(appConfig, "stateContainerEffects")) = 2
    /\ Cardinality(EntriesOf(appConfig, "Store")) = 1
    /\ Cardinality(EntriesOf(appConfig, "Effects")) = 1

C2_Witness ==
  /\ Configured
  /\ Len(appConfig.providers) = Cardinality(RecognizedOptions) + 1
  /\ Has(appConfig, "Store")
  /\ Has(appConfig, "Effects")

\* C3: once the record is constructed, no step changes any field of it and no
\* second record comes into existence, whatever isDevMode() would return later.
C3_NeverMutated ==
  [][Configured => modules' = modules]_vars

C3_Witness ==
  /\ Configured
  /\ devSeen[1] = TRUE
  /\ ngDevMode = FALSE
  /\ LogOnlyOf(appConfig) = FALSE
  /\ Len(registered) = NumProviders
  /\ handled # <<>>

\* C4 as stated: any two records constructed in the same process are equal.
C4_TwiceEqual ==
  \A i, j \in DOMAIN modules : modules[i] = modules[j]

\* C4 as amended: any two records constructed in the same process have the same
\* providers in the same order, the same maxAge and the same HTTP transport;
\* they have the same logOnly, and so are equal, whenever isDevMode() returned
\* the same value at both constructions.
C4_TwiceEqualButLogOnly ==
  \A i, j \in DOMAIN modules :
    /\ KindsOf(modules[i]) = KindsOf(modules[j])
    /\ MaxAgeOf(modules[i]) = MaxAgeOf(modules[j])
    /\ TransportOf(modules[i]) = TransportOf(modules[j])
    /\ (devSeen[i] = devSeen[j] => modules[i] = modules[j])

C4_Witness ==
  /\ Len(modules) >= 3
  /\ devSeen[1] = TRUE
  /\ devSeen[2] = FALSE
  /\ devSeen[3] = FALSE
  /\ modules[2] = modules[3]
  /\ modules[1] # modules[2]

\* C5: the lifecycle starts unconfigured, its only transition is from
\* unconfigured to configured, that transition is taken, and nothing is
\* registered or handled while the lifecycle is unconfigured.
C5_Lifecycle ==
  /\ Lifecycle = "unconfigured"
  /\ [][Lifecycle' # Lifecycle =>
          (Lifecycle = "unconfigured" /\ Lifecycle' = "configured")]_vars
  /\ []((registered # <<>> \/ handled # <<>>) => Lifecycle = "configured")
  /\ <>(Lifecycle = "configured")

C5_Witness ==
  /\ Lifecycle = "configured"
  /\ Len(modules) = 1
  /\ Len(handled) = MaxEvents
  /\ \A ev \in AppEvents : \E k \in DOMAIN handled : handled[k] = ev

\* C6: the devtools maxAge field of the constructed appConfig is 25, whatever
\* isDevMode() returned.
C6_MaxAge25 ==
  Configured => MaxAgeOf(appConfig) = 25

C6_Witness ==
  /\ Configured
  /\ devSeen[1] = FALSE
  /\ MaxAgeOf(appConfig) = 25

\* C7: the HTTP client entry of appConfig selects the fetch transport and no
\* other, in every build mode.
C7_FetchTransport ==
  Configured =>
    /\ Has(appConfig, "HttpClient")
    /\ \A i \in EntriesOf(appConfig, "HttpClient") :
         appConfig.providers[i].features = {"Fetch"}

C7_Witness ==
  /\ Configured
  /\ devSeen[1] = TRUE
  /\ TransportOf(appConfig) = {"Fetch"}

\* C8: two records constructed under different values of isDevMode() differ in
\* logOnly and in nothing else.
C8_OnlyLogOnlyDepends ==
  \A i, j \in DOMAIN modules :
    devSeen[i] # devSeen[j] =>
      /\ WithoutLogOnly(modules[i]) = WithoutLogOnly(modules[j])
      /\ LogOnlyOf(modules[i]) # LogOnlyOf(modules[j])

C8_Witness ==
  /\ Len(modules) >= 2
  /\ devSeen[1] # devSeen[2]
  /\ modules[1] # modules[2]

\* C9: appConfig contains the zone-free change-detection entry and no
\* zone-based one, in every build mode.
C9_Zoneless ==
  Configured =>
    /\ Has(appConfig, "ZonelessChangeDetection")
    /\ ~Has(appConfig, "ZoneChangeDetection")

C9_Witness ==
  /\ Configured
  /\ devSeen[1] = FALSE
  /\ ngDevMode = FALSE
  /\ Has(appConfig, "ZonelessChangeDetection")

RegisteredKinds == {registered[k] : k \in DOMAIN registered}

\* C10: in appConfig the store entry precedes the effects entry and the
\* devtools entry, and the router entry precedes the hydration entry; so
\* registration in list order never has effects, devtools or hydration
\* registered without the store, respectively the router.
C10_DependenciesFirst ==
  /\ Configured =>
       /\ Has(appConfig, "Store") /\ Has(appConfig, "Router")
       /\ Precedes(appConfig, "Store", "Effects")
       /\ Precedes(appConfig, "Store", "StoreDevtools")
       /\ Precedes(appConfig, "Router", "ClientHydration")
  /\ "Effects" \in RegisteredKinds => "Store" \in RegisteredKinds
  /\ "StoreDevtools" \in RegisteredKinds => "Store" \in RegisteredKinds
  /\ "ClientHydration" \in RegisteredKinds => "Router" \in RegisteredKinds

C10_Witness ==
  /\ Configured
  /\ "Store" \in RegisteredKinds
  /\ "Effects" \in RegisteredKinds
  /\ "StoreDevtools" \notin RegisteredKinds

====
